---- MODULE Spec2Model ----
(***************************************************************************)
(* The component storage of src/src/storage.rs: a MaskedStorage (a BitSet  *)
(* of present indices plus an UnprotectedStorage backend) behind a Storage *)
(* facade that checks an Entity's generation against the Allocator's       *)
(* generation table before every operation.                                *)
(***************************************************************************)
EXTENDS Integers, Sequences, FiniteSets, TLC

\* Bounds of the model.
MaxIndex == 1
MaxGen == 2
MaxVal == 1

\* Index, Generation and the payload values T of a component.
Index == 0..MaxIndex
Generation == 1..MaxGen
Payload == 0..MaxVal

\* Entity::new(index, generation); get_id() is .id, get_gen() is .gen.
Entity == [id : Index, gen : Generation]

\* Option<T>
None == << >>
Some(v) == << v >>

\* The three UnprotectedStorage implementations a Component can name.
Kinds == {"VecStorage", "HashMapStorage", "DummyStorage"}

VARIABLES
    kind,         \* T::Storage, fixed when the component type is registered
    generations,  \* Allocator.generations : Vec<Generation>
    mask,         \* MaskedStorage.mask : BitSet
    inner,        \* MaskedStorage.inner : T::Storage
    ret,          \* the last call: its name and whether it returned true / Some
    other,        \* SpecTwin: the second store, [kind, mask, inner]
    agree,        \* SpecTwin: the last call returned the same from both stores
    pc,           \* SpecLife: the position inside clear, remove or drop
    owned,        \* SpecLife: payloads moved into the backend and not yet released
    sound         \* SpecLife: no slot was read or destroyed that held no payload

\* The variables of SpecTwin and SpecLife, which Spec leaves alone.
aux == << other, agree, pc, owned, sound >>

vars == << kind, generations, mask, inner, ret, aux >>

----------------------------------------------------------------------------
\* VecStorage<T>(Vec<T>): a slot of the buffer is a constructed value, memory
\* exposed by set_len that was never written, or a value already moved out.
Live(v) == [st |-> "live", val |-> v]
Uninit == [st |-> "uninit", val |-> 0]
Moved == [st |-> "moved", val |-> 0]

VecStorage_new == << >>

\* Mutant: clean that drops the elements with has(i) where they are and
\* leaves the buffer at its length.
VecStorage_clean_inplace(in, has) ==
    [j \in 1..Len(in) |-> IF (j - 1) \in has THEN Moved ELSE in[j]]

\* drain(..) takes every element out (dropping it if has(i), forgetting it
\* otherwise) and leaves the Vec empty.
VecStorage_clean(in, has) == << >>

\* get_unchecked: the values a read of slot id can produce; reading a slot
\* that is out of bounds, uninitialised or moved out is undefined.
VecStorage_get(in, id) ==
    IF id < Len(in) /\ in[id + 1].st = "live"
    THEN {in[id + 1].val}
    ELSE Payload

\* get_unchecked_mut followed by a write of w through the reference.
VecStorage_get_mut(in, id, w) ==
    IF id < Len(in)
    THEN {[in EXCEPT ![id + 1] = Live(w)]}
    ELSE {in} \cup {[in EXCEPT ![j] = Live(w)] : j \in 1..Len(in)}

\* Grows the length to id + 1 without constructing the new slots, then
\* swaps v into slot id and forgets what was there.
\* Mutant: growth that builds a fresh buffer and loses the old slots.
VecStorage_insert_regrow(in, id, v) ==
    LET grown == IF Len(in) <= id
                 THEN [j \in 1..(id + 1) |-> Uninit]
                 ELSE in
    IN  [grown EXCEPT ![id + 1] = Live(v)]

VecStorage_insert(in, id, v) ==
    LET grown == IF Len(in) <= id
                 THEN in \o [j \in 1..(id + 1 - Len(in)) |-> Uninit]
                 ELSE in
    IN  [grown EXCEPT ![id + 1] = Live(v)]

\* ptr::read(self.get(id)): the value is copied out and the slot is dead.
VecStorage_remove(in, id) ==
    {[val |-> v,
      inner |-> IF id < Len(in) THEN [in EXCEPT ![id + 1] = Moved] ELSE in]
        : v \in VecStorage_get(in, id)}

----------------------------------------------------------------------------
\* HashMapStorage<T>(HashMap<Index, T>): a function on the keys it holds.
HashMapStorage_new == [i \in {} |-> 0]

HashMapStorage_clean(in, has) == in

\* self.0.get(&id).unwrap(): panics (no result) when the key is missing.
HashMapStorage_get(in, id) ==
    IF id \in DOMAIN in THEN {in[id]} ELSE {}

HashMapStorage_get_mut(in, id, w) ==
    IF id \in DOMAIN in THEN {[in EXCEPT ![id] = w]} ELSE {}

\* Mutant: insert that keeps the entry the map already has for the key.
HashMapStorage_insert_keep(in, id, v) ==
    IF id \in DOMAIN in
    THEN in
    ELSE [j \in (DOMAIN in) \cup {id} |-> IF j = id THEN v ELSE in[j]]

HashMapStorage_insert(in, id, v) ==
    [j \in (DOMAIN in) \cup {id} |-> IF j = id THEN v ELSE in[j]]

HashMapStorage_remove(in, id) ==
    IF id \in DOMAIN in
    THEN {[val |-> in[id], inner |-> [j \in (DOMAIN in) \ {id} |-> in[j]]]}
    ELSE {}

----------------------------------------------------------------------------
\* DummyStorage<T>(T): one shared value, Default::default() at first.
\* Cdummy's Default is Cdummy(0).
DummyStorage_new == 0

DummyStorage_clean(in, has) == in

DummyStorage_get(in, id) == {in}

DummyStorage_get_mut(in, id, w) == {w}

DummyStorage_insert(in, id, v) == in

\* Mutant: remove that takes the shared value and leaves the default behind.
DummyStorage_remove_take(in, id) == {[val |-> in, inner |-> DummyStorage_new]}

DummyStorage_remove(in, id) == {[val |-> in, inner |-> in]}

----------------------------------------------------------------------------
\* trait UnprotectedStorage<T>, dispatched on the component's storage type.
inner_new(k) ==
    CASE k = "VecStorage" -> VecStorage_new
      [] k = "HashMapStorage" -> HashMapStorage_new
      [] k = "DummyStorage" -> DummyStorage_new

inner_clean(in, has) ==
    CASE kind = "VecStorage" -> VecStorage_clean(in, has)
      [] kind = "HashMapStorage" -> HashMapStorage_clean(in, has)
      [] kind = "DummyStorage" -> DummyStorage_clean(in, has)

inner_get(in, id) ==
    CASE kind = "VecStorage" -> VecStorage_get(in, id)
      [] kind = "HashMapStorage" -> HashMapStorage_get(in, id)
      [] kind = "DummyStorage" -> DummyStorage_get(in, id)

inner_get_mut(in, id, w) ==
    CASE kind = "VecStorage" -> VecStorage_get_mut(in, id, w)
      [] kind = "HashMapStorage" -> HashMapStorage_get_mut(in, id, w)
      [] kind = "DummyStorage" -> DummyStorage_get_mut(in, id, w)

inner_insert(in, id, v) ==
    CASE kind = "VecStorage" -> VecStorage_insert(in, id, v)
      [] kind = "HashMapStorage" -> HashMapStorage_insert(in, id, v)
      [] kind = "DummyStorage" -> DummyStorage_insert(in, id, v)

inner_remove(in, id) ==
    CASE kind = "VecStorage" -> VecStorage_remove(in, id)
      [] kind = "HashMapStorage" -> HashMapStorage_remove(in, id)
      [] kind = "DummyStorage" -> DummyStorage_remove(in, id)

----------------------------------------------------------------------------
\* MaskedStorage<T>, as a function of its fields m (mask) and in (inner).

\* Mutant: clear that cleans the backend and forgets mask.clear().
MaskedStorage_clear_keepmask(m, in) == [mask |-> m, inner |-> inner_clean(in, m)]

\* self.inner.clean(|i| mask.contains(i)); mask.clear()
MaskedStorage_clear(m, in) == [mask |-> {}, inner |-> inner_clean(in, m)]

\* Mutant: remove that tests the mask with contains() and leaves the bit set.
MaskedStorage_remove_keepmask(m, in, id) ==
    IF id \in m
    THEN {[res |-> Some(o.val), mask |-> m, inner |-> o.inner]
            : o \in inner_remove(in, id)}
    ELSE {[res |-> None, mask |-> m, inner |-> in]}

\* if self.mask.remove(id) { Some(self.inner.remove(id)) } else { None }
\* Outcomes [res, mask, inner].
MaskedStorage_remove(m, in, id) ==
    IF id \in m
    THEN {[res |-> Some(o.val), mask |-> m \ {id}, inner |-> o.inner]
            : o \in inner_remove(in, id)}
    ELSE {[res |-> None, mask |-> m, inner |-> in]}

----------------------------------------------------------------------------
\* Storage<T, A, D>: alloc is the Allocator (generations), data the
\* MaskedStorage (m, in).

\* Mutant: has_gen that accepts any generation for an index without an entry.
has_gen_missing(e) ==
    IF e.id < Len(generations) THEN e.gen = generations[e.id + 1] ELSE TRUE

\* Mutant: has_gen that compares against Generation(1) and never reads the table.
has_gen_default(e) == e.gen = 1

\* e.get_gen() == *self.alloc.generations.get(e.get_id() as usize).unwrap_or(&g1)
has_gen(e) ==
    LET g1 == 1
    IN  e.gen = (IF e.id < Len(generations) THEN generations[e.id + 1] ELSE g1)

\* Mutant: get without the generation check.
Storage_get_nogen(m, in, e) ==
    IF e.id \in m
    THEN {Some(v) : v \in inner_get(in, e.id)}
    ELSE {None}

\* The Option<&T> the call can return.
Storage_get(m, in, e) ==
    IF e.id \in m /\ has_gen(e)
    THEN {Some(v) : v \in inner_get(in, e.id)}
    ELSE {None}

\* Mutant: get_mut whose reference is to a copy, so the write is lost.
Storage_get_mut_copy(m, in, e, w) ==
    IF e.id \in m /\ has_gen(e)
    THEN {[res |-> Some(v), mask |-> m, inner |-> in] : v \in inner_get(in, e.id)}
    ELSE {[res |-> None, mask |-> m, inner |-> in]}

\* get_mut(e), and a write of w through the reference when one is returned
\* (*s.get_mut(e).unwrap() = w). Outcomes [res, mask, inner], res the payload
\* the reference pointed at.
Storage_get_mut(m, in, e, w) ==
    IF e.id \in m /\ has_gen(e)
    THEN {[res |-> Some(v), mask |-> m, inner |-> in2]
            : v \in inner_get(in, e.id), in2 \in inner_get_mut(in, e.id, w)}
    ELSE {[res |-> None, mask |-> m, inner |-> in]}

\* Mutant: insert without the generation check.
Storage_insert_nogen(m, in, e, v) ==
    LET id == e.id
    IN  IF id \in m
        THEN {[ok |-> TRUE, mask |-> m, inner |-> in2]
                : in2 \in inner_get_mut(in, id, v)}
        ELSE {[ok |-> TRUE, mask |-> m \cup {id},
               inner |-> inner_insert(in, id, v)]}

\* Mutant: insert that keeps the old payload of an index already present.
Storage_insert_nooverwrite(m, in, e, v) ==
    IF has_gen(e)
    THEN LET id == e.id
         IN  IF id \in m
             THEN {[ok |-> TRUE, mask |-> m, inner |-> in]}
             ELSE {[ok |-> TRUE, mask |-> m \cup {id},
                    inner |-> inner_insert(in, id, v)]}
    ELSE {[ok |-> FALSE, mask |-> m, inner |-> in]}

\* Outcomes [ok, mask, inner] of insert(e, v).
Storage_insert(m, in, e, v) ==
    IF has_gen(e)
    THEN LET id == e.id
         IN  IF id \in m
             THEN {[ok |-> TRUE, mask |-> m, inner |-> in2]
                     : in2 \in inner_get_mut(in, id, v)}
             ELSE {[ok |-> TRUE, mask |-> m \cup {id},
                    inner |-> inner_insert(in, id, v)]}
    ELSE {[ok |-> FALSE, mask |-> m, inner |-> in]}

\* Mutant: remove without the generation check.
Storage_remove_nogen(m, in, e) == MaskedStorage_remove(m, in, e.id)

\* Outcomes [res, mask, inner] of remove(e).
Storage_remove(m, in, e) ==
    IF has_gen(e)
    THEN MaskedStorage_remove(m, in, e.id)
    ELSE {[res |-> None, mask |-> m, inner |-> in]}

Storage_clear(m, in) == MaskedStorage_clear(m, in)

----------------------------------------------------------------------------
\* Join for &Storage and &mut Storage.

\* open(): (&self.data.mask, &self.data.inner), and open_mut() for &mut.
Join_open(m, in) == [mask |-> m, value |-> in]

\* Mutant: a fetch that ignores its index and reads slot 0.
Join_get_first(value, i) == inner_get(value, 0)

\* Join::get(v, i) for &Storage: v.get(i), the values the fetch can produce.
Join_get(value, i) == inner_get(value, i)

\* Join::get(v, i) for &mut Storage: value.get_mut(i), and a write of w
\* through the reference. Outcomes [val, value], val the payload the
\* reference pointed at.
Join_get_mut(value, i, w) ==
    {[val |-> v, value |-> in2]
        : v \in inner_get(value, i), in2 \in inner_get_mut(value, i, w)}

----------------------------------------------------------------------------
\* The record of a call: its name and whether it returned true / Some.
Call(op, ok) == [op |-> op, ok |-> ok]

\* No clear, remove or drop is under way.
Idle == [at |-> "idle", id |-> 0]

\* The number of values of T the backend owns: the constructed slots of the
\* Vec, the entries of the HashMap, the one value of the DummyStorage.
Held(in) ==
    CASE kind = "VecStorage" ->
            Cardinality({j \in 1..Len(in) : in[j].st = "live"})
      [] kind = "HashMapStorage" -> Cardinality(DOMAIN in)
      [] kind = "DummyStorage" -> 1

\* Allocator::new() and MaskedStorage::new() behind Storage::new.
Init ==
    /\ kind \in Kinds
    /\ generations = << >>
    /\ mask = {}
    /\ inner = inner_new(kind)
    /\ ret = Call("new", TRUE)
    /\ other = None
    /\ agree = TRUE
    /\ pc = Idle
    /\ owned = Held(inner)
    /\ sound = TRUE

Insert(e, v) ==
    \E o \in Storage_insert(mask, inner, e, v) :
        /\ mask' = o.mask
        /\ inner' = o.inner
        /\ ret' = Call("insert", o.ok)
        /\ UNCHANGED << kind, generations, aux >>

Get(e) ==
    \E r \in Storage_get(mask, inner, e) :
        /\ ret' = Call("get", r # None)
        /\ UNCHANGED << kind, generations, mask, inner, aux >>

GetMut(e, w) ==
    \E o \in Storage_get_mut(mask, inner, e, w) :
        /\ mask' = o.mask
        /\ inner' = o.inner
        /\ ret' = Call("get_mut", o.res # None)
        /\ UNCHANGED << kind, generations, aux >>

Remove(e) ==
    \E o \in Storage_remove(mask, inner, e) :
        /\ mask' = o.mask
        /\ inner' = o.inner
        /\ ret' = Call("remove", o.res # None)
        /\ UNCHANGED << kind, generations, aux >>

Clear ==
    /\ mask' = Storage_clear(mask, inner).mask
    /\ inner' = Storage_clear(mask, inner).inner
    /\ ret' = Call("clear", TRUE)
    /\ UNCHANGED << kind, generations, aux >>

\* A join consumer opens the shared facade and fetches index i, a member of
\* the presence set the opening returned.
JoinGet(i) ==
    LET o == Join_open(mask, inner)
    IN  /\ i \in o.mask
        /\ \E v \in Join_get(o.value, i) : ret' = Call("join_get", TRUE)
        /\ UNCHANGED << kind, generations, mask, inner, aux >>

\* A join consumer opens the exclusive facade, fetches index i and writes w
\* through the reference.
JoinGetMut(i, w) ==
    LET o == Join_open(mask, inner)
    IN  /\ i \in o.mask
        /\ \E x \in Join_get_mut(o.value, i, w) :
              /\ inner' = x.value
              /\ ret' = Call("join_get_mut", TRUE)
        /\ UNCHANGED << kind, generations, mask, aux >>

\* The Allocator records a new index, at generation 1.
AllocPush ==
    /\ Len(generations) <= MaxIndex
    /\ generations' = Append(generations, 1)
    /\ ret' = Call("alloc", TRUE)
    /\ UNCHANGED << kind, mask, inner, aux >>

\* The Allocator recycles index i: its current generation moves on.
AllocRaise(i) ==
    /\ i < Len(generations)
    /\ generations[i + 1] < MaxGen
    /\ generations' = [generations EXCEPT ![i + 1] = @ + 1]
    /\ ret' = Call("alloc", TRUE)
    /\ UNCHANGED << kind, mask, inner, aux >>

Next ==
    \/ \E e \in Entity, v \in Payload : Insert(e, v)
    \/ \E e \in Entity : Get(e)
    \/ \E e \in Entity, w \in Payload : GetMut(e, w)
    \/ \E e \in Entity : Remove(e)
    \/ Clear
    \/ AllocPush
    \/ \E i \in Index : AllocRaise(i)

Spec == Init /\ [][Next]_vars

\* SpecJoin: the calls of Spec and, between them, join consumers that open
\* the store and fetch.
JoinNext ==
    \/ \E e \in Entity, v \in Payload : Insert(e, v)
    \/ \E e \in Entity : Get(e)
    \/ \E e \in Entity, w \in Payload : GetMut(e, w)
    \/ \E e \in Entity : Remove(e)
    \/ Clear
    \/ \E i \in Index : JoinGet(i)
    \/ \E i \in Index, w \in Payload : JoinGetMut(i, w)
    \/ AllocPush
    \/ \E i \in Index : AllocRaise(i)

SpecJoin == Init /\ [][JoinNext]_vars

----------------------------------------------------------------------------
\* SpecTwin: a VecStorage store and a HashMapStorage store of the same
\* component values under one Allocator, driven by the same calls (the
\* vec_* and hash_* tests run the same test bodies). Each step makes one call
\* on the store in (kind, mask, inner), then the same call on the store in
\* other, and the two stores change places; agree records whether the two
\* calls returned the same. A call that panics on one store is recorded as a
\* disagreement.

Waiting == [kind |-> kind, mask |-> mask, inner |-> inner]

TwinInit ==
    /\ kind \in {"VecStorage", "HashMapStorage"}
    /\ generations = << >>
    /\ mask = {}
    /\ inner = inner_new(kind)
    /\ ret = Call("new", TRUE)
    /\ other = [kind |-> CHOOSE k \in {"VecStorage", "HashMapStorage"} : k # kind,
                mask |-> {},
                inner |-> inner_new(CHOOSE k \in {"VecStorage", "HashMapStorage"} : k # kind)]
    /\ agree = TRUE
    /\ pc = Idle
    /\ owned = 0
    /\ sound = TRUE

\* The second store takes outcome o2 of its call, whose result r2 is compared
\* with r1, the result of the first store, which now waits with outcome o1.
TwinDone(o1, r1, o2, r2) ==
    /\ mask' = o2.mask
    /\ inner' = o2.inner
    /\ other' = [kind |-> kind, mask |-> o1.mask, inner |-> o1.inner]
    /\ agree' = (r1 = r2)

\* The call on the second store has no outcome: it panicked.
TwinPanic(om, oi, o1) ==
    /\ mask' = om
    /\ inner' = oi
    /\ other' = [kind |-> kind, mask |-> o1.mask, inner |-> o1.inner]
    /\ agree' = FALSE

TwinInsert(e, v) ==
    \E om \in {other.mask}, oi \in {other.inner} :
        /\ kind' = other.kind
        /\ UNCHANGED << generations, ret, pc, owned, sound >>
        /\ \E o1 \in Storage_insert(mask, inner, e, v) :
              LET R2 == Storage_insert(om, oi, e, v)'
              IN  IF R2 = {}
                  THEN TwinPanic(om, oi, o1)
                  ELSE \E o2 \in R2 : TwinDone(o1, o1.ok, o2, o2.ok)

TwinGet(e) ==
    \E om \in {other.mask}, oi \in {other.inner} :
        /\ kind' = other.kind
        /\ UNCHANGED << generations, ret, pc, owned, sound >>
        /\ \E r1 \in Storage_get(mask, inner, e) :
              LET R2 == Storage_get(om, oi, e)'
              IN  IF R2 = {}
                  THEN TwinPanic(om, oi, Waiting)
                  ELSE \E r2 \in R2 :
                          TwinDone(Waiting, r1, [mask |-> om, inner |-> oi], r2)

TwinGetMut(e, w) ==
    \E om \in {other.mask}, oi \in {other.inner} :
        /\ kind' = other.kind
        /\ UNCHANGED << generations, ret, pc, owned, sound >>
        /\ \E o1 \in Storage_get_mut(mask, inner, e, w) :
              LET R2 == Storage_get_mut(om, oi, e, w)'
              IN  IF R2 = {}
                  THEN TwinPanic(om, oi, o1)
                  ELSE \E o2 \in R2 : TwinDone(o1, o1.res, o2, o2.res)

TwinRemove(e) ==
    \E om \in {other.mask}, oi \in {other.inner} :
        /\ kind' = other.kind
        /\ UNCHANGED << generations, ret, pc, owned, sound >>
        /\ \E o1 \in Storage_remove(mask, inner, e) :
              LET R2 == Storage_remove(om, oi, e)'
              IN  IF R2 = {}
                  THEN TwinPanic(om, oi, o1)
                  ELSE \E o2 \in R2 : TwinDone(o1, o1.res, o2, o2.res)

TwinClear ==
    \E om \in {other.mask}, oi \in {other.inner} :
        /\ kind' = other.kind
        /\ UNCHANGED << generations, ret, pc, owned, sound >>
        /\ TwinDone(Storage_clear(mask, inner), None,
                    Storage_clear(om, oi)', None)

TwinNext ==
    \/ \E e \in Entity, v \in Payload : TwinInsert(e, v)
    \/ \E e \in Entity : TwinGet(e)
    \/ \E e \in Entity, w \in Payload : TwinGetMut(e, w)
    \/ \E e \in Entity : TwinRemove(e)
    \/ TwinClear
    \/ AllocPush
    \/ \E i \in Index : AllocRaise(i)

SpecTwin == TwinInit /\ [][TwinNext]_vars

----------------------------------------------------------------------------
\* SpecLife: the store with the statements of MaskedStorage::clear, remove
\* and drop as separate steps, and the values of T the backend owns counted:
\* owned goes up when a value moves in and down when the code drops a value
\* or hands it to the caller; sound turns false when the code reads or drops
\* a slot that holds no constructed value.

\* Slot i of the backend holds a constructed value of T.
Constructed(in, i) ==
    CASE kind = "VecStorage" -> i < Len(in) /\ in[i + 1].st = "live"
      [] kind = "HashMapStorage" -> i \in DOMAIN in
      [] kind = "DummyStorage" -> TRUE

\* Mutant: clean that drops every element it drains.
VecStorage_clean_drops_all(in, has) == 0..(Len(in) - 1)

\* The slots whose element VecStorage::clean drops: drain(..) yields every
\* element, and the ones with !has(i) are forgotten.
VecStorage_clean_drops(in, has) == {i \in 0..(Len(in) - 1) : i \in has}

\* The slots whose value clean drops; the HashMapStorage and the
\* DummyStorage clean does nothing.
inner_clean_drops(in, has) ==
    CASE kind = "VecStorage" -> VecStorage_clean_drops(in, has)
      [] kind = "HashMapStorage" -> {}
      [] kind = "DummyStorage" -> {}

\* The number of values the backend's insert drops: VecStorage forgets what
\* the slot held, HashMap::insert returns the old entry, which is dropped,
\* DummyStorage drops its argument.
inner_insert_drops(in, id) ==
    CASE kind = "VecStorage" -> 0
      [] kind = "HashMapStorage" -> IF id \in DOMAIN in THEN 1 ELSE 0
      [] kind = "DummyStorage" -> 1

\* The number of owned values the backend's remove hands to the caller
\* (DummyStorage hands out a clone).
inner_remove_takes(in, id) ==
    CASE kind = "VecStorage" -> 1
      [] kind = "HashMapStorage" -> 1
      [] kind = "DummyStorage" -> 0

\* The slots dropped when the backend itself is dropped: every element of
\* the Vec up to its length, every entry of the HashMap, the one value.
inner_drop(in) ==
    CASE kind = "VecStorage" -> 0..(Len(in) - 1)
      [] kind = "HashMapStorage" -> DOMAIN in
      [] kind = "DummyStorage" -> {0}

\* Mutant: clear that empties the mask before the cleanup pass.
MaskedStorage_clear_begin_unmasked(m, in) ==
    [mask |-> {}, inner |-> inner_clean(in, {}),
     drops |-> inner_clean_drops(in, {})]

\* MaskedStorage::clear, first statement: self.inner.clean(|i| mask.contains(i)),
\* with the slots whose value the pass drops.
MaskedStorage_clear_begin(m, in) ==
    [mask |-> m, inner |-> inner_clean(in, m),
     drops |-> inner_clean_drops(in, m)]

\* MaskedStorage::clear, second statement: self.mask.clear().
MaskedStorage_clear_end(m, in) ==
    [mask |-> {}, inner |-> in]

\* Mutant: remove that extracts the payload before it updates the mask.
MaskedStorage_remove_begin_extract(m, in, id) ==
    {[mask |-> m, inner |-> x.inner] : x \in inner_remove(in, id)}

\* MaskedStorage::remove, the condition: self.mask.remove(id), taken when id
\* was in the mask.
MaskedStorage_remove_begin(m, in, id) ==
    {[mask |-> m \ {id}, inner |-> in]}

\* MaskedStorage::remove, the then branch: Some(unsafe { self.inner.remove(id) }).
MaskedStorage_remove_end(m, in, id) ==
    {[res |-> Some(x.val), mask |-> m, inner |-> x.inner]
        : x \in inner_remove(in, id)}

At(a, i) == [at |-> a, id |-> i]

\* Storage::insert: the value moves in; the overwrite of a present index
\* drops the old value of the slot, the backend's insert drops what it drops.
LifeInsert(e, v) ==
    /\ pc = Idle
    /\ \E o \in Storage_insert(mask, inner, e, v) :
          /\ mask' = o.mask
          /\ inner' = o.inner
          /\ ret' = Call("insert", o.ok)
          /\ owned' = IF o.ok /\ e.id \notin mask
                      THEN owned + 1 - inner_insert_drops(inner, e.id)
                      ELSE owned
          /\ sound' = (sound /\ ((o.ok /\ e.id \in mask) => Constructed(inner, e.id)))
    /\ UNCHANGED << kind, generations, other, agree, pc >>

\* Storage::get: the slot of a present index is read.
LifeGet(e) ==
    /\ pc = Idle
    /\ \E r \in Storage_get(mask, inner, e) :
          /\ ret' = Call("get", r # None)
          /\ sound' = (sound /\ (r # None => Constructed(inner, e.id)))
    /\ UNCHANGED << kind, generations, mask, inner, other, agree, pc, owned >>

\* Storage::get_mut and a write through the reference: the slot is read, the
\* old value dropped and the written one moved in.
LifeGetMut(e, w) ==
    /\ pc = Idle
    /\ \E o \in Storage_get_mut(mask, inner, e, w) :
          /\ mask' = o.mask
          /\ inner' = o.inner
          /\ ret' = Call("get_mut", o.res # None)
          /\ sound' = (sound /\ (o.res # None => Constructed(inner, e.id)))
    /\ UNCHANGED << kind, generations, other, agree, pc, owned >>

\* Storage::remove up to and including self.mask.remove(id).
LifeRemoveBegin(e) ==
    /\ pc = Idle
    /\ IF has_gen(e) /\ e.id \in mask
       THEN /\ \E o \in MaskedStorage_remove_begin(mask, inner, e.id) :
                  mask' = o.mask /\ inner' = o.inner
            /\ pc' = At("remove", e.id)
            /\ UNCHANGED ret
       ELSE /\ ret' = Call("remove", FALSE)
            /\ UNCHANGED << mask, inner, pc >>
    /\ UNCHANGED << kind, generations, other, agree, owned, sound >>

\* Storage::remove, the rest: self.inner.remove(id) and the return.
LifeRemoveEnd ==
    /\ pc.at = "remove"
    /\ \E o \in MaskedStorage_remove_end(mask, inner, pc.id) :
          mask' = o.mask /\ inner' = o.inner
    /\ owned' = owned - inner_remove_takes(inner, pc.id)
    /\ sound' = (sound /\ Constructed(inner, pc.id))
    /\ pc' = Idle
    /\ ret' = Call("remove", TRUE)
    /\ UNCHANGED << kind, generations, other, agree >>

\* The cleanup pass of clear, called by Storage::clear (to = "clear") or by
\* Drop::drop (to = "drop_clear").
LifeClean(to) ==
    /\ pc = Idle
    /\ mask' = MaskedStorage_clear_begin(mask, inner).mask
    /\ inner' = MaskedStorage_clear_begin(mask, inner).inner
    /\ owned' = owned - Cardinality(MaskedStorage_clear_begin(mask, inner).drops)
    /\ sound' = (sound /\ \A i \in MaskedStorage_clear_begin(mask, inner).drops :
                              Constructed(inner, i))
    /\ pc' = At(to, 0)
    /\ UNCHANGED << kind, generations, ret, other, agree >>

LifeClear == LifeClean("clear")

\* impl Drop for MaskedStorage: drop calls self.clear().
LifeDrop == LifeClean("drop_clear")

\* The second statement of clear; after it Storage::clear returns, and
\* Drop::drop goes on to drop the fields.
LifeClearEnd ==
    /\ pc.at \in {"clear", "drop_clear"}
    /\ mask' = MaskedStorage_clear_end(mask, inner).mask
    /\ inner' = MaskedStorage_clear_end(mask, inner).inner
    /\ pc' = IF pc.at = "clear" THEN Idle ELSE At("drop_fields", 0)
    /\ ret' = IF pc.at = "clear" THEN Call("clear", TRUE) ELSE ret
    /\ UNCHANGED << kind, generations, other, agree, owned, sound >>

\* After Drop::drop the fields are dropped: the backend drops what it holds.
LifeDropFields ==
    /\ pc.at = "drop_fields"
    /\ owned' = owned - Cardinality(inner_drop(inner))
    /\ sound' = (sound /\ \A i \in inner_drop(inner) : Constructed(inner, i))
    /\ inner' = inner_new(kind)
    /\ pc' = At("dropped", 0)
    /\ ret' = Call("drop", TRUE)
    /\ UNCHANGED << kind, generations, mask, other, agree >>

\* The Allocator is another object: its table can move at any time before
\* the store is dropped.
LifeNext ==
    \/ \E e \in Entity, v \in Payload : LifeInsert(e, v)
    \/ \E e \in Entity : LifeGet(e)
    \/ \E e \in Entity, w \in Payload : LifeGetMut(e, w)
    \/ \E e \in Entity : LifeRemoveBegin(e)
    \/ LifeRemoveEnd
    \/ LifeClear
    \/ LifeDrop
    \/ LifeClearEnd
    \/ LifeDropFields
    \/ pc.at # "dropped" /\ AllocPush
    \/ pc.at # "dropped" /\ \E i \in Index : AllocRaise(i)

SpecLife == Init /\ [][LifeNext]_vars

----------------------------------------------------------------------------
\* The Allocator's current generation for index i: the table's entry, and
\* generation 1 for an index the table does not hold.
CurrentGen(i) == IF i < Len(generations) THEN generations[i + 1] ELSE 1

Valid(e) == e.gen = CurrentGen(e.id)

\* The currently valid identifier of index i.
ValidEntity(i) == [id |-> i, gen |-> CurrentGen(i)]

\* The calls that go through the Storage facade.
StoreOps == {"insert", "get", "get_mut", "remove", "clear"}

\* What get returns for the valid identifier of index j in store (m, in).
ViewAt(m, in, j) == Storage_get(m, in, ValidEntity(j))

\* Store (m, in) is the current one, or differs from it in nothing that get
\* returns for the valid identifier of any index but i.
OthersKept(m, in, i) ==
    \/ m = mask /\ in = inner
    \/ \A j \in Index \ {i} : ViewAt(m, in, j) = ViewAt(mask, inner, j)

\* Every index holds data and the valid identifiers are of generation 2 or more.
AllPresentRecycled == mask = Index /\ \A i \in Index : CurrentGen(i) > 1

----------------------------------------------------------------------------
\* get(e) has one result: the stored payload when e's index is in the
\* presence set and e's generation is the Allocator's current one for that
\* index, absent in every other case.
GetResult ==
    \A e \in Entity :
        /\ Cardinality(Storage_get(mask, inner, e)) = 1
        /\ Storage_get(mask, inner, e) =
              IF e.id \in mask /\ e.gen = CurrentGen(e.id)
              THEN {Some(v) : v \in inner_get(inner, e.id)}
              ELSE {None}

\* C1: get(e) returns the stored payload if and only if e's index is in the
\* presence set and e's generation is the Allocator's current one for that
\* index, returns absent in every other case, and a get changes neither the
\* presence set nor any payload.
C1_GetContract ==
    /\ []GetResult
    /\ [][ret'.op = "get" => (mask' = mask /\ inner' = inner)]_vars

C1_Witness == ret.op = "get" /\ ret.ok /\ AllPresentRecycled

\* C2: an insert whose generation is not the Allocator's current one returns
\* false and changes neither the presence set nor any payload; afterwards get
\* with the stale identifier is absent and get with the valid identifier of
\* the same index returns what it returned before.
C2_StaleInsertNoOp ==
    \A e \in Entity, v \in Payload :
        ~Valid(e) =>
            /\ Storage_insert(mask, inner, e, v) # {}
            /\ \A o \in Storage_insert(mask, inner, e, v) :
                  /\ o.ok = FALSE
                  /\ o.mask = mask
                  /\ o.inner = inner
                  /\ Storage_get(o.mask, o.inner, e) = {None}
                  /\ ViewAt(o.mask, o.inner, e.id) = ViewAt(mask, inner, e.id)

C2_Witness == ret.op = "insert" /\ ~ret.ok /\ mask = Index

\* C3: (VecStorage and HashMapStorage) after insert(e, v) returns true,
\* get(e) returns exactly v, whether the index was absent or already present
\* (the last write wins), and the insert leaves what get returns for the
\* identifiers of every other index as it was.
C3_RoundTrip ==
    kind \in {"VecStorage", "HashMapStorage"} =>
        \A i \in Index, v \in Payload :
            /\ Storage_insert(mask, inner, ValidEntity(i), v) # {}
            /\ \A o \in Storage_insert(mask, inner, ValidEntity(i), v) :
                  /\ o.ok
                  /\ Storage_get(o.mask, o.inner, ValidEntity(i)) = {Some(v)}
                  /\ OthersKept(o.mask, o.inner, i)

C3_Witness ==
    /\ kind = "VecStorage"
    /\ ret.op = "insert" /\ ret.ok
    /\ mask = Index
    /\ \E i, j \in Index : ViewAt(mask, inner, i) # ViewAt(mask, inner, j)

\* C4: remove(e) on a present identifier of valid generation returns the
\* payload stored for it; afterwards get(e) is absent and a second remove(e)
\* returns absent and changes nothing; an absent index stays absent under
\* every call but a successful insert on that index.
C4_RemoveIdempotent ==
    /\ \A i \in mask :
          LET e == ValidEntity(i)
          IN  /\ Storage_remove(mask, inner, e) # {}
              /\ \A o \in Storage_remove(mask, inner, e) :
                    /\ o.res # None
                    /\ o.res \in Storage_get(mask, inner, e)
                    /\ Storage_get(o.mask, o.inner, e) = {None}
                    /\ Storage_remove(o.mask, o.inner, e) # {}
                    /\ \A o2 \in Storage_remove(o.mask, o.inner, e) :
                          o2.res = None /\ o2.mask = o.mask /\ o2.inner = o.inner
    /\ \A e \in Entity, v \in Payload :
          /\ \A o \in Storage_insert(mask, inner, e, v) :
                o.mask \ mask \subseteq (IF o.ok THEN {e.id} ELSE {})
          /\ \A o \in Storage_get_mut(mask, inner, e, v) : o.mask \subseteq mask
          /\ \A o \in Storage_remove(mask, inner, e) : o.mask \subseteq mask

C4_Witness ==
    /\ ret.op = "remove" /\ ret.ok
    /\ Cardinality(mask) = MaxIndex
    /\ \A i \in Index : CurrentGen(i) > 1

\* C5: remove(e) with a generation that is not the Allocator's current one
\* returns absent and changes neither the presence set nor any payload, and
\* the data stays reachable through the valid identifier of the index; a
\* remove with the valid identifier of an index that holds nothing (only
\* rejected inserts reached it) returns absent.
C5_StaleRemove ==
    \A e \in Entity :
        (~Valid(e) \/ e.id \notin mask) =>
            /\ Storage_remove(mask, inner, e) # {}
            /\ \A o \in Storage_remove(mask, inner, e) :
                  /\ o.res = None
                  /\ o.mask = mask
                  /\ o.inner = inner
                  /\ ViewAt(o.mask, o.inner, e.id) = ViewAt(mask, inner, e.id)

C5_Witness ==
    /\ ret.op = "remove" /\ ~ret.ok
    /\ mask = Index
    /\ \A i \in Index : ViewAt(mask, inner, i) # {None}

\* C6: after clear(), for every backend, the presence set is empty and get
\* returns absent for every identifier, of valid generation or not.
C6_ClearEmpties ==
    /\ LET o == Storage_clear(mask, inner)
       IN  /\ o.mask = {}
           /\ \A e \in Entity : Storage_get(o.mask, o.inner, e) = {None}
    /\ ret.op = "clear" =>
          /\ mask = {}
          /\ \A e \in Entity : Storage_get(mask, inner, e) = {None}

C6_Witness ==
    /\ ret.op = "clear"
    /\ kind = "HashMapStorage"
    /\ DOMAIN inner = Index
    /\ \E i \in Index : CurrentGen(i) > 1

\* get_mut returns absent exactly when get does, and a value written through
\* the reference get_mut(e) returns is what get(e) returns afterwards.
MutationReadBack ==
    \A e \in Entity, w \in Payload :
        /\ Storage_get_mut(mask, inner, e, w) # {}
        /\ \A o \in Storage_get_mut(mask, inner, e, w) :
              /\ (o.res = None) <=> (Storage_get(mask, inner, e) = {None})
              /\ o.res # None => Storage_get(o.mask, o.inner, e) = {Some(w)}

\* No insert, get_mut write or remove for an index changes what get returns
\* for the valid identifier of another index.
WrittenValueKept ==
    \A e \in Entity :
        /\ \A v \in Payload :
              /\ \A o \in Storage_get_mut(mask, inner, e, v) :
                    OthersKept(o.mask, o.inner, e.id)
              /\ \A o \in Storage_insert(mask, inner, e, v) :
                    OthersKept(o.mask, o.inner, e.id)
        /\ \A o \in Storage_remove(mask, inner, e) :
              OthersKept(o.mask, o.inner, e.id)

\* C7 as stated, for every backend: a value written through get_mut(e) is
\* what get(e) returns from then on, until an insert, get_mut write, remove
\* or clear for that index; get_mut returns absent exactly when get does.
C7_MutationPersists_AnyBackend == MutationReadBack /\ WrittenValueKept

\* C7, amended: get_mut returns absent exactly when get does and a value
\* written through get_mut(e) is what get(e) returns right afterwards, for
\* every backend; for VecStorage and HashMapStorage no insert, get_mut write
\* or remove for another index changes what get(e) returns.
C7_MutationPersists ==
    /\ MutationReadBack
    /\ kind \in {"VecStorage", "HashMapStorage"} => WrittenValueKept

C7_Witness ==
    /\ ret.op = "get_mut" /\ ret.ok
    /\ kind \in {"VecStorage", "HashMapStorage"}
    /\ mask = Index
    /\ \E i, j \in Index : ViewAt(mask, inner, i) # ViewAt(mask, inner, j)

\* The backend slot of index i holds a live, constructed payload (the
\* DummyStorage has no slot of its own for an index).
SlotLive(i) ==
    CASE kind = "VecStorage" -> i < Len(inner) /\ inner[i + 1].st = "live"
      [] kind = "HashMapStorage" -> i \in DOMAIN inner
      [] kind = "DummyStorage" -> i \in mask

\* C8: at every operation boundary an index is in the presence set if and
\* only if the backend slot of that index holds a live payload; after
\* clear() the backend holds no live payload.
C8_LockStep == \A i \in Index : i \in mask <=> SlotLive(i)

\* An identifier of index i carrying the current generation gets nothing
\* from get, get_mut or remove.
NothingHandedOut(i) ==
    /\ Storage_get(mask, inner, ValidEntity(i)) = {None}
    /\ \A w \in Payload :
          \A o \in Storage_get_mut(mask, inner, ValidEntity(i), w) : o.res = None
    /\ \A o \in Storage_remove(mask, inner, ValidEntity(i)) : o.res = None

\* C9: when the Allocator's current generation of an index changes while the
\* store holds a payload for that index, written under the old generation,
\* no get, get_mut or remove hands that payload out for the identifier that
\* carries the new generation.
C9_RecycledSafe ==
    [][ \A i \in Index :
            (i \in mask /\ CurrentGen(i)' # CurrentGen(i)) => NothingHandedOut(i)' ]_vars

\* An insert returns true exactly when its generation is the table's
\* current one for its index.
InsertDecidedByTable ==
    \A e \in Entity, v \in Payload :
        /\ Storage_insert(mask, inner, e, v) # {}
        /\ \A o \in Storage_insert(mask, inner, e, v) :
              o.ok <=> e.gen = CurrentGen(e.id)

\* insert(e, v) returns true, for every v.
InsertAccepted(e) ==
    \A v \in Payload : \A o \in Storage_insert(mask, inner, e, v) : o.ok

\* insert(e, v) returns false, for every v.
InsertRejected(e) ==
    \A v \in Payload : \A o \in Storage_insert(mask, inner, e, v) : ~o.ok

C12_DummyInsertNoOp ==
    kind = "DummyStorage" =>
        \A e \in Entity, v \in Payload :
            \A o \in Storage_insert(mask, inner, e, v) :
                /\ o.inner = inner
                /\ \A j \in mask : ViewAt(o.mask, o.inner, j) = ViewAt(mask, inner, j)

JoinFetchesStored ==
    LET o == Join_open(mask, inner)
    IN  /\ o.mask = mask
        /\ o.value = inner
        /\ \A i \in o.mask :
              /\ Cardinality(Join_get(o.value, i)) = 1
              /\ {Some(v) : v \in Join_get(o.value, i)}
                    = Storage_get(mask, inner, ValidEntity(i))
              /\ \A w \in Payload :
                    {[res |-> Some(x.val), inner |-> x.value]
                        : x \in Join_get_mut(o.value, i, w)}
                    = {[res |-> y.res, inner |-> y.inner]
                        : y \in Storage_get_mut(mask, inner, ValidEntity(i), w)}

\* C15: open() on a shared or exclusive facade returns the presence set and
\* the backend of the same MaskedStorage; for every index of that presence
\* set the unchecked fetch returns the payload get / get_mut returns for the
\* valid identifier of the index; opening and fetching change neither the
\* presence set nor, but for a write through the mutable reference, a payload.
C15_JoinOpen ==
    /\ []JoinFetchesStored
    /\ [][ /\ ret'.op = "join_get" => (mask' = mask /\ inner' = inner)
           /\ ret'.op = "join_get_mut" => mask' = mask ]_vars

C15_Witness ==
    /\ ret.op = "join_get"
    /\ kind = "VecStorage"
    /\ mask = Index
    /\ \E i, j \in Index : ViewAt(mask, inner, i) # ViewAt(mask, inner, j)

\* C18: has_gen(e) is true exactly when e's generation equals the table's
\* entry for e's index; for an index without an entry the comparison is with
\* generation 1.
C18_HasGen ==
    \A e \in Entity :
        has_gen(e) <=>
            IF e.id + 1 \in DOMAIN generations
            THEN e.gen = generations[e.id + 1]
            ELSE e.gen = 1

C18_Witness ==
    /\ ret.op = "insert" /\ ~ret.ok
    /\ Len(generations) = MaxIndex
    /\ \A i \in 1..Len(generations) : generations[i] > 1

\* C20: (VecStorage and HashMapStorage) an insert, get_mut write or remove
\* for an identifier of index i, accepted or rejected, leaves the presence
\* and the payload of every other index as they were, also when a VecStorage
\* insert beyond the length grows the buffer.
FrameKept(m, in, i) ==
    \/ m = mask /\ in = inner
    \/ \A j \in Index \ {i} :
          /\ j \in m <=> j \in mask
          /\ j \in mask => inner_get(in, j) = inner_get(inner, j)

C20_Frame ==
    kind \in {"VecStorage", "HashMapStorage"} =>
        \A e \in Entity :
            /\ \A v \in Payload :
                  /\ \A o \in Storage_insert(mask, inner, e, v) :
                        FrameKept(o.mask, o.inner, e.id)
                  /\ \A o \in Storage_get_mut(mask, inner, e, v) :
                        FrameKept(o.mask, o.inner, e.id)
            /\ \A o \in Storage_remove(mask, inner, e) :
                  FrameKept(o.mask, o.inner, e.id)

C20_Witness ==
    /\ kind = "VecStorage"
    /\ agree
    /\ Len(inner) = MaxIndex + 1
    /\ inner[1].st = "uninit"
    /\ mask = {MaxIndex}

\* C11: the VecStorage store and the HashMapStorage store, driven by the same
\* insert / get / get_mut write / remove / clear calls under the same
\* generation table, return the same from every call: the same success flag,
\* the same present or absent, the same payload.
C11_BackendsAgree ==
    /\ agree
    /\ \A e \in Entity :
          /\ Storage_get(mask, inner, e) # {}
          /\ \A w \in Payload :
                /\ Storage_insert(mask, inner, e, w) # {}
                /\ Storage_get_mut(mask, inner, e, w) # {}
          /\ Storage_remove(mask, inner, e) # {}

C11_Witness ==
    /\ agree
    /\ kind = "VecStorage"
    /\ mask = {0}
    /\ Len(inner) = 1
    /\ other.mask = {0}
    /\ DOMAIN other.inner = Index
    /\ other.inner[0] = inner[1].val
    /\ other.inner[MaxIndex] # other.inner[0]

\* The count of owned values is the number of constructed values in the
\* backend, and nothing is owned once the store is dropped.
OwnedIsHeld ==
    IF pc.at = "dropped" THEN owned = 0 ELSE owned = Held(inner)

\* The composition of the steps is the method.
StepsCompose ==
    /\ LET b == MaskedStorage_clear_begin(mask, inner)
           c == MaskedStorage_clear_end(b.mask, b.inner)
       IN  c = MaskedStorage_clear(mask, inner)
    /\ \A i \in mask :
          UNION {MaskedStorage_remove_end(b.mask, b.inner, i)
                    : b \in MaskedStorage_remove_begin(mask, inner, i)}
            = MaskedStorage_remove(mask, inner, i)

\* C14: clear can be repeated: a second clear, on a store just cleared, never
\* used or empty, leaves the state the first clear left (empty mask) and
\* drops no value, and the drop of the backend after it (the clear inside
\* Drop::drop after an explicit clear) drops only values still constructed,
\* each once.
C14_ClearRepeats ==
    LET c1 == MaskedStorage_clear(mask, inner)
        b2 == MaskedStorage_clear_begin(c1.mask, c1.inner)
        c2 == MaskedStorage_clear_end(b2.mask, b2.inner)
    IN  /\ c1.mask = {}
        /\ c2 = c1
        /\ b2.drops = {}
        /\ \A i \in inner_drop(c2.inner) : Constructed(c2.inner, i)
        /\ Cardinality(inner_drop(c2.inner)) = Held(c2.inner)

C14_Witness ==
    /\ pc.at = "drop_fields"
    /\ ret.op = "clear"
    /\ kind = "HashMapStorage"
    /\ DOMAIN inner = Index

\* After the cleanup pass and before the mask is emptied the pass has
\* released exactly the present payloads; the fields are dropped only with
\* the mask empty and the Vec drained.
CleanedThenEmptied ==
    /\ pc.at \in {"clear", "drop_clear"} =>
          /\ sound
          /\ owned = Held(inner)
          /\ kind = "VecStorage" => inner = << >>
    /\ pc.at \in {"drop_fields", "dropped"} =>
          /\ mask = {}
          /\ kind = "VecStorage" => inner = << >>

\* C16: in clear and in drop the cleanup pass of the backend runs while the
\* mask still holds every present index, the mask is emptied only after it,
\* and the backend is released only after the whole clear.
C16_ClearOrder ==
    /\ []CleanedThenEmptied
    /\ [][ /\ (pc.at = "idle" /\ pc'.at \in {"clear", "drop_clear"}) => mask' = mask
           /\ (pc.at \in {"clear", "drop_clear"} /\ pc'.at # pc.at) =>
                 (mask' = {} /\ inner' = inner)
           /\ pc'.at = "drop_fields" => pc.at \in {"drop_clear", "drop_fields"}
           /\ pc'.at = "dropped" => pc.at \in {"drop_fields", "dropped"} ]_vars

C16_Witness ==
    /\ pc.at = "drop_clear"
    /\ kind = "VecStorage"
    /\ mask = Index
    /\ inner = << >>

\* Every index of the mask has its payload in the backend, also between the
\* two statements of remove, where the index removed is out of the mask and
\* its payload still in the slot.
NothingExtractedPresent ==
    /\ pc.at \in {"idle", "remove"} => \A i \in mask : Constructed(inner, i)
    /\ pc.at = "remove" => (pc.id \notin mask /\ Constructed(inner, pc.id))

\* remove of an index outside the mask returns None and changes nothing.
RemoveAbsentNoOp ==
    \A i \in Index \ mask :
        MaskedStorage_remove(mask, inner, i)
            = {[res |-> None, mask |-> mask, inner |-> inner]}

\* The payload of index i is out of its slot (the DummyStorage has one value
\* and no slot of an index).
Extracted(i) == kind = "DummyStorage" \/ ~Constructed(inner, i)

\* C17: MaskedStorage::remove of an index outside the mask is a no-op that
\* returns None; otherwise the index leaves the mask first and the payload is
\* extracted after, so that in no state a slot is extracted while the mask
\* still holds its index.
C17_RemoveOrder ==
    /\ [](NothingExtractedPresent /\ RemoveAbsentNoOp)
    /\ [][ /\ (pc.at = "idle" /\ pc'.at = "remove") =>
                 (pc'.id \in mask /\ mask' = mask \ {pc'.id} /\ inner' = inner)
           /\ (pc.at = "remove" /\ pc'.at # "remove") =>
                 (mask' = mask /\ ret' = Call("remove", TRUE)
                     /\ \A i \in {pc.id} : Extracted(i)')
           /\ (pc.at = "idle" /\ pc'.at = "idle" /\ ret'.op = "remove") =>
                 (mask' = mask /\ inner' = inner) ]_vars

C17_Witness ==
    /\ pc.at = "remove"
    /\ kind = "VecStorage"
    /\ mask # {}
    /\ Len(inner) = MaxIndex + 1

\* C19: every payload moved in by an accepted insert is released once, by
\* remove to the caller, or dropped by an overwriting insert, by clear or by
\* the drop of the backend: the count of values owned is in every state the
\* number of constructed values the backend holds, and zero after the drop;
\* and no slot is read or dropped that was never constructed or is already
\* extracted.
C19_ReleasedOnce == sound /\ OwnedIsHeld

C19_Witness ==
    /\ kind = "VecStorage"
    /\ pc = Idle
    /\ ret.op = "remove" /\ ret.ok
    /\ owned = 1
    /\ Len(inner) = MaxIndex + 1
    /\ inner[1].st = "moved"

====
